---- MODULE Spec2Model ----
(***************************************************************************)
(* Model of the BTC/USD limit order book engine: fixed-point Price and     *)
(* Quantity, PriceLevel FIFO queues, the two-sided OrderBook with its      *)
(* by-id index and user balances, the matcher, trade settlement, and the   *)
(* engine loop that applies one command at a time.                         *)
(*                                                                         *)
(* Numbers.  Price and Quantity are the raw u64 fixed-point integers of    *)
(* the source (scale 10^6 and 10^8).  Balances and settlement amounts are  *)
(* f64 in the source; the model draws every decimal input from whole       *)
(* numbers, for which from_f64, to_f64, the products and the sums of the   *)
(* source are exact, and represents them by integers.                      *)
(* Identifiers.  Uuid::new_v4() is modelled by a counter, next_id: every   *)
(* Order::new_limit / Order::new_market takes the next value.  Trade ids   *)
(* and timestamps are not modelled.                                        *)
(* Specifications.  Spec gives the mutating commands straight to the       *)
(* engine; SpecQuery adds the two queries; SpecChannel puts the bounded    *)
(* mpsc channel, the producers and the oneshot replies in front of the     *)
(* engine, and SpecChannelFair adds the fair scheduling of the engine.     *)
(***************************************************************************)
EXTENDS Integers, Sequences, FiniteSets, TLC

\* ------------------------------------------------------------------ bounds
MaxOrders == 3      \* orders created in one run (values of next_id)
MaxInput == 2       \* largest decimal price and quantity of a request
MaxBalance == 4     \* the amount of a deposit; no deposit takes a balance beyond it
MaxRequests == 3    \* commands the handlers send in one run of the command channel
QueueCapacity == 2  \* buffer of the command channel (mpsc::channel(100) in main)

Users == {1, 2}
Sides == {"Buy", "Sell"}
Currencies == {"USD", "BTC"}
PriceInputs == 1..MaxInput
QuantityInputs == {-1} \cup (0..MaxInput)
AmountInputs == {-1, 0, MaxBalance}
CurrencyInputs == {"USD", "BTC", "EUR"}
OrderIds == 1..MaxOrders
DepthInputs == 0..MaxInput
Producers == Users

\* --------------------------------------------------------- Option<T>, misc
None == {}
Some(x) == {x}
Unwrap(o) == CHOOSE x \in o : TRUE

Min2(a, b) == IF a <= b THEN a ELSE b
MinOf(S) == CHOOSE x \in S : \A y \in S : x <= y
MaxOf(S) == CHOOSE x \in S : \A y \in S : x >= y
EmptyMap == [x \in {} |-> 0]
RemoveKey(f, k) == [x \in (DOMAIN f) \ {k} |-> f[x]]
Insert(f, k, v) == [x \in (DOMAIN f) \cup {k} |-> IF x = k THEN v ELSE f[x]]

\* ------------------------------------------------------- Price, Quantity
Price_MULTIPLIER == 1000000
Quantity_MULTIPLIER == 100000000

\* (value * MULTIPLIER).round() as u64: a negative value saturates to 0
Price_from_f64(value) == IF value <= 0 THEN 0 ELSE value * Price_MULTIPLIER
Price_to_f64(p) == p \div Price_MULTIPLIER
Quantity_from_f64(value) == IF value <= 0 THEN 0 ELSE value * Quantity_MULTIPLIER
Quantity_to_f64(q) == q \div Quantity_MULTIPLIER
is_zero(q) == q = 0

\* ------------------------------------------------------------------ Order
new_limit(id, user_id, side, price, quantity) ==
    [id |-> id, user_id |-> user_id, side |-> side, order_type |-> "Limit",
     price |-> Some(price), original_quantity |-> quantity,
     remaining_quantity |-> quantity, status |-> "Open"]

new_market(id, user_id, side, quantity) ==
    [id |-> id, user_id |-> user_id, side |-> side, order_type |-> "Market",
     price |-> None, original_quantity |-> quantity,
     remaining_quantity |-> quantity, status |-> "Open"]

is_fully_filled(order) == is_zero(order.remaining_quantity)

fill(order, quantity) ==
    LET o == [order EXCEPT !.remaining_quantity = @ - quantity]
    IN  [o EXCEPT !.status = IF is_fully_filled(o) THEN "Filled" ELSE "PartiallyFilled"]

\* ------------------------------------------------------------------ Trade
Trade_new(maker_order_id, taker_order_id, maker_user_id, taker_user_id, price, quantity) ==
    [maker_order_id |-> maker_order_id, taker_order_id |-> taker_order_id,
     maker_user_id |-> maker_user_id, taker_user_id |-> taker_user_id,
     price |-> price, quantity |-> quantity]

\* ------------------------------------------------------------- PriceLevel
PriceLevel_new(price) == [price |-> price, orders |-> <<>>, total_volume |-> 0]

\* (variant: push_front instead of push_back)
enqueue_order_front(level, order) ==
    [level EXCEPT !.total_volume = @ + order.remaining_quantity,
                  !.orders = <<order>> \o @]

\* (variant: the level's volume is not raised by an enqueued order)
enqueue_order_volume_skipped(level, order) ==
    [level EXCEPT !.orders = Append(@, order)]

enqueue_order(level, order) ==
    [level EXCEPT !.total_volume = @ + order.remaining_quantity,
                  !.orders = Append(@, order)]

RemoveAt(s, pos) == SubSeq(s, 1, pos - 1) \o SubSeq(s, pos + 1, Len(s))

\* a level without the order is returned as it is
dequeue_order_by_id(level, order_id) ==
    LET hits == {i \in 1..Len(level.orders) : level.orders[i].id = order_id}
    IN  IF hits = {} THEN level
        ELSE LET pos == MinOf(hits)
                 order == level.orders[pos]
             IN  [level EXCEPT !.orders = RemoveAt(@, pos),
                               !.total_volume = @ - order.remaining_quantity]

\* (variant: the level's volume is not touched by a fill)
update_volume_skipped(level, quantity_filled) == level

update_volume(level, quantity_filled) ==
    [level EXCEPT !.total_volume = @ - quantity_filled]

is_empty(level) == level.orders = <<>>

pop_if_filled(level) ==
    IF level.orders # <<>> /\ is_fully_filled(Head(level.orders))
    THEN [level EXCEPT !.orders = Tail(@)]
    ELSE level

\* ------------------------------------------------------------ UserBalance
UserBalance_new == [c \in Currencies |-> 0]

add_balance(balance, currency, amount) ==
    [balance EXCEPT ![currency] = @ + amount]

\* (variant: no check of the balance against the amount)
subtract_balance_unchecked(balance, currency, amount) ==
    [ok |-> TRUE, err |-> "", balance |-> [balance EXCEPT ![currency] = @ - amount]]

\* Err("Insufficient balance") leaves the balance as it was
subtract_balance(balance, currency, amount) ==
    IF balance[currency] < amount
    THEN [ok |-> FALSE, err |-> "Insufficient balance", balance |-> balance]
    ELSE [ok |-> TRUE, err |-> "", balance |-> [balance EXCEPT ![currency] = @ - amount]]

get_balance(balance, currency) == balance[currency]

\* -------------------------------------------------------------- OrderBook
\* An OrderBook value b is [bids, asks, orders, user_balances]; bids and asks
\* map a price to its PriceLevel (the BTreeMap keys; Reverse<Price> on the
\* bid side only changes which key is first).
OrderBook_new ==
    [bids |-> EmptyMap, asks |-> EmptyMap, orders |-> EmptyMap,
     user_balances |-> EmptyMap]

best_bid(b) == IF DOMAIN b.bids = {} THEN None ELSE Some(MaxOf(DOMAIN b.bids))
\* (variant: the last key of asks instead of the first)
best_ask_last(b) == IF DOMAIN b.asks = {} THEN None ELSE Some(MaxOf(DOMAIN b.asks))
best_ask(b) == IF DOMAIN b.asks = {} THEN None ELSE Some(MinOf(DOMAIN b.asks))

AddToSide(levels, price, order) ==
    Insert(levels, price,
           enqueue_order(IF price \in DOMAIN levels THEN levels[price]
                         ELSE PriceLevel_new(price), order))

add_order(b, order) ==
    LET price == Unwrap(order.price)
        b1 == IF order.side = "Buy"
              THEN [b EXCEPT !.bids = AddToSide(@, price, order)]
              ELSE [b EXCEPT !.asks = AddToSide(@, price, order)]
    IN  [b1 EXCEPT !.orders = Insert(@, order.id, order)]

\* (variant: a level emptied by the removal stays in the map)
RemoveFromSide_keep_empty(levels, price, order_id) ==
    IF price \in DOMAIN levels
    THEN [levels EXCEPT ![price] = dequeue_order_by_id(levels[price], order_id)]
    ELSE levels

RemoveFromSide(levels, price, order_id) ==
    IF price \in DOMAIN levels
    THEN LET level == dequeue_order_by_id(levels[price], order_id)
         IN  IF is_empty(level) THEN RemoveKey(levels, price)
             ELSE [levels EXCEPT ![price] = level]
    ELSE levels

\* [ok, err, order, book]
cancel_order(b, order_id) ==
    IF order_id \notin DOMAIN b.orders
    THEN [ok |-> FALSE, err |-> "Order not found", order |-> None, book |-> b]
    ELSE LET order == b.orders[order_id]
             b1 == [b EXCEPT !.orders = RemoveKey(@, order_id)]
         IN  IF order.price = None
             THEN [ok |-> FALSE, err |-> "Order has no price", order |-> None, book |-> b1]
             ELSE LET price == Unwrap(order.price)
                      b2 == IF order.side = "Buy"
                            THEN [b1 EXCEPT !.bids = RemoveFromSide(@, price, order_id)]
                            ELSE [b1 EXCEPT !.asks = RemoveFromSide(@, price, order_id)]
                  IN  [ok |-> TRUE, err |-> "", order |-> Some(order), book |-> b2]

get_or_create_balance(b, user_id) ==
    IF user_id \in DOMAIN b.user_balances THEN b
    ELSE [b EXCEPT !.user_balances = Insert(@, user_id, UserBalance_new)]

get_user_balance(b, user_id) ==
    IF user_id \in DOMAIN b.user_balances THEN Some(b.user_balances[user_id]) ELSE None

add_funds(b, user_id, currency, amount) ==
    LET b1 == get_or_create_balance(b, user_id)
    IN  [b1 EXCEPT !.user_balances[user_id] = add_balance(@, currency, amount)]

has_sufficient_balance(b, user_id, currency, required_amount) ==
    IF user_id \in DOMAIN b.user_balances
    THEN get_balance(b.user_balances[user_id], currency) >= required_amount
    ELSE FALSE

\* [ok, err, book]
deduct_balance(b, user_id, currency, amount) ==
    IF user_id \notin DOMAIN b.user_balances
    THEN [ok |-> FALSE, err |-> "User not found", book |-> b]
    ELSE LET r == subtract_balance(b.user_balances[user_id], currency, amount)
         IN  [ok |-> r.ok, err |-> r.err,
              book |-> [b EXCEPT !.user_balances[user_id] = r.balance]]

credit_balance(b, user_id, currency, amount) ==
    LET b1 == get_or_create_balance(b, user_id)
    IN  [b1 EXCEPT !.user_balances[user_id] = add_balance(@, currency, amount)]

TakeFirst(s, n) == SubSeq(s, 1, Min2(n, Len(s)))

RECURSIVE Ascending(_)
Ascending(S) ==
    IF S = {} THEN <<>> ELSE <<MinOf(S)>> \o Ascending(S \ {MinOf(S)})

RECURSIVE Descending(_)
Descending(S) ==
    IF S = {} THEN <<>> ELSE <<MaxOf(S)>> \o Descending(S \ {MaxOf(S)})

\* (variant: the bids are listed from the lowest price up)
get_depth_bids_ascending(b, levels) ==
    LET bk == TakeFirst(Ascending(DOMAIN b.bids), levels)
        ak == TakeFirst(Ascending(DOMAIN b.asks), levels)
    IN  [bids |-> [i \in 1..Len(bk) |-> <<bk[i], b.bids[bk[i]].total_volume>>],
         asks |-> [i \in 1..Len(ak) |-> <<ak[i], b.asks[ak[i]].total_volume>>]]

get_depth(b, levels) ==
    LET bk == TakeFirst(Descending(DOMAIN b.bids), levels)
        ak == TakeFirst(Ascending(DOMAIN b.asks), levels)
    IN  [bids |-> [i \in 1..Len(bk) |-> <<bk[i], b.bids[bk[i]].total_volume>>],
         asks |-> [i \in 1..Len(ak) |-> <<ak[i], b.asks[ak[i]].total_volume>>]]

\* ------------------------------------------------------------- settlement
\* The four legs in the order of the source; a failed deduct returns at once
\* (the ? operator) and keeps the legs already applied.  [ok, err, book]
execute_trade_settlement(b, trade, taker_side) ==
    LET btc_amount == Quantity_to_f64(trade.quantity)
        usd_amount == Price_to_f64(trade.price) * btc_amount
        c1 == IF taker_side = "Buy" THEN "USD" ELSE "BTC"
        a1 == IF taker_side = "Buy" THEN usd_amount ELSE btc_amount
        c2 == IF taker_side = "Buy" THEN "BTC" ELSE "USD"
        a2 == IF taker_side = "Buy" THEN btc_amount ELSE usd_amount
        maker_legs(d3) ==
            IF ~d3.ok THEN d3
            ELSE [ok |-> TRUE, err |-> "",
                  book |-> credit_balance(d3.book, trade.maker_user_id, c1, a1)]
        taker_legs(d1) ==
            IF ~d1.ok THEN d1
            ELSE maker_legs(deduct_balance(
                     credit_balance(d1.book, trade.taker_user_id, c2, a2),
                     trade.maker_user_id, c2, a2))
    IN  taker_legs(deduct_balance(b, trade.taker_user_id, c1, a1))

\* ---------------------------------------------------------------- matcher
\* The matcher's working state w: the book, the taker (&mut Order), the
\* local trades vector, the settlement calls made so far (one record per
\* call of execute_trade_settlement: the trade, the balances before and
\* after, and whether it returned Ok), and the error that ended matching.
MatchState(b, taker) ==
    [book |-> b, taker |-> taker, trades |-> <<>>, settlements |-> <<>>, err |-> ""]

\* The side a taker matches against: asks for a Buy taker, bids for a Sell.
Opposite(b, taker_side) == IF taker_side = "Buy" THEN b.asks ELSE b.bids
SetOpposite(b, taker_side, levels) ==
    IF taker_side = "Buy" THEN [b EXCEPT !.asks = levels] ELSE [b EXCEPT !.bids = levels]

\* (variant: a filled head order and an empty level stay where they are)
pop_and_prune_skipped(b, taker_side, best_price) == b

\* pop_if_filled on the level at best_price, then drop the level if empty
pop_and_prune(b, taker_side, best_price) ==
    LET levels == Opposite(b, taker_side)
    IN  IF best_price \in DOMAIN levels
        THEN LET level == pop_if_filled(levels[best_price])
             IN  SetOpposite(b, taker_side,
                     IF is_empty(level) THEN RemoveKey(levels, best_price)
                     ELSE [levels EXCEPT ![best_price] = level])
        ELSE b

\* (variant: a filled maker is written back to the index, not removed)
update_index_keep_filled(b, taker_side, best_price, maker_id, maker_filled) ==
    LET levels == Opposite(b, taker_side)
    IN  IF best_price \in DOMAIN levels /\ levels[best_price].orders # <<>>
        THEN [b EXCEPT !.orders = Insert(@, maker_id, Head(levels[best_price].orders))]
        ELSE b

\* index update for the maker after a settled trade
update_index(b, taker_side, best_price, maker_id, maker_filled) ==
    LET levels == Opposite(b, taker_side)
    IN  IF maker_filled THEN [b EXCEPT !.orders = RemoveKey(@, maker_id)]
        ELSE IF best_price \in DOMAIN levels /\ levels[best_price].orders # <<>>
        THEN [b EXCEPT !.orders = Insert(@, maker_id, Head(levels[best_price].orders))]
        ELSE b

\* (variant: a limit taker trades at its own price)
execution_price_taker(taker_order, best_price) ==
    IF taker_order.price # None THEN Unwrap(taker_order.price) ELSE best_price

\* the price handed to Trade::new: the key of the maker's level
execution_price(taker_order, best_price) == best_price

\* One pass of a matching loop once the best opposite price is chosen: the
\* same block in the four loops (limit/market, buy/sell).
match_iteration(w, taker_side, best_price) ==
    LET levels == Opposite(w.book, taker_side)
        price_level == levels[best_price]
    IN  IF price_level.orders = <<>>
        THEN [w EXCEPT !.book = pop_and_prune(w.book, taker_side, best_price)]
        ELSE
          LET maker_order == Head(price_level.orders)
              fill_qty == Min2(w.taker.remaining_quantity, maker_order.remaining_quantity)
              maker_id == maker_order.id
              maker_user_id == maker_order.user_id
              maker2 == fill(maker_order, fill_qty)
              taker2 == fill(w.taker, fill_qty)
              maker_filled == is_fully_filled(maker2)
              level2 == update_volume(
                            [price_level EXCEPT !.orders = <<maker2>> \o Tail(@)], fill_qty)
              trade == Trade_new(maker_id, taker2.id, maker_user_id, taker2.user_id,
                                 execution_price(taker2, best_price), fill_qty)
              b2 == SetOpposite(w.book, taker_side, [levels EXCEPT ![best_price] = level2])
              call(s) == [trade |-> trade, taker_side |-> taker_side,
                          before |-> w.book.user_balances,
                          after |-> s.book.user_balances, ok |-> s.ok]
              settled(s) ==
                  IF ~s.ok
                  THEN [w EXCEPT !.book = s.book, !.taker = taker2,
                                 !.settlements = Append(@, call(s)), !.err = s.err]
                  ELSE [w EXCEPT !.book = pop_and_prune(
                                     update_index(s.book, taker_side, best_price,
                                                  maker_id, maker_filled),
                                     taker_side, best_price),
                                 !.taker = taker2,
                                 !.trades = Append(@, trade),
                                 !.settlements = Append(@, call(s))]
          IN  settled(execute_trade_settlement(b2, trade, taker_side))

\* (variant: the comparison of the break condition inverted)
crosses_inverted(taker_side, taker_price, best_price) ==
    IF taker_side = "Buy" THEN best_price > taker_price ELSE best_price < taker_price

\* the crossability test of a limit taker against the best opposite price
crosses(taker_side, taker_price, best_price) ==
    IF taker_side = "Buy" THEN ~(best_price > taker_price) ELSE ~(best_price < taker_price)

best_opposite(b, taker_side) == IF taker_side = "Buy" THEN best_ask(b) ELSE best_bid(b)

RECURSIVE match_limit_order(_)
match_limit_order(w) ==
    IF is_fully_filled(w.taker) THEN w
    ELSE LET best == best_opposite(w.book, w.taker.side)
         IN  IF best = None THEN w
             ELSE IF ~crosses(w.taker.side, Unwrap(w.taker.price), Unwrap(best)) THEN w
             ELSE LET again(w2) == IF w2.err # "" THEN w2 ELSE match_limit_order(w2)
                  IN  again(match_iteration(w, w.taker.side, Unwrap(best)))

RECURSIVE match_market_buy(_)
match_market_buy(w) ==
    IF is_fully_filled(w.taker) THEN w
    ELSE LET best == best_ask(w.book)
         IN  IF best = None
             THEN [w EXCEPT !.err = "Insufficient liquidity for market order"]
             ELSE LET again(w2) == IF w2.err # "" THEN w2 ELSE match_market_buy(w2)
                  IN  again(match_iteration(w, "Buy", Unwrap(best)))

RECURSIVE match_market_sell(_)
match_market_sell(w) ==
    IF is_fully_filled(w.taker) THEN w
    ELSE LET best == best_bid(w.book)
         IN  IF best = None
             THEN [w EXCEPT !.err = "Insufficient liquidity for market order"]
             ELSE LET again(w2) == IF w2.err # "" THEN w2 ELSE match_market_sell(w2)
                  IN  again(match_iteration(w, "Sell", Unwrap(best)))

\* (variant: running out of liquidity ends matching without an error)
match_market_order_quiet(w) ==
    LET quiet(r) == IF r.err = "Insufficient liquidity for market order"
                    THEN [r EXCEPT !.err = ""] ELSE r
    IN  quiet(IF w.taker.side = "Buy" THEN match_market_buy(w) ELSE match_market_sell(w))

match_market_order(w) ==
    IF w.taker.side = "Buy" THEN match_market_buy(w) ELSE match_market_sell(w)

\* (variant: the unfilled rest of a limit order is not added to the book)
match_order_no_rest(b, order) ==
    IF order.order_type = "Limit"
    THEN match_limit_order(MatchState(b, order))
    ELSE match_market_order(MatchState(b, order))

\* (variant: a limit order is added to the book after matching, filled or not)
match_order_rest_filled(b, order) ==
    IF order.order_type = "Limit"
    THEN LET rest(w) == IF w.err # "" THEN w
                        ELSE [w EXCEPT !.book = add_order(w.book, w.taker)]
         IN  rest(match_limit_order(MatchState(b, order)))
    ELSE match_market_order(MatchState(b, order))

\* Ok(trades) iff err = ""; the book keeps what was done before an error
match_order(b, order) ==
    IF order.order_type = "Limit"
    THEN LET rest(w) == IF w.err # "" THEN w
                        ELSE IF ~is_fully_filled(w.taker)
                        THEN [w EXCEPT !.book = add_order(w.book, w.taker)]
                        ELSE w
         IN  rest(match_limit_order(MatchState(b, order)))
    ELSE match_market_order(MatchState(b, order))

\* ----------------------------------------------------------------- engine
VARIABLES
    bids,            \* OrderBook.bids: price -> PriceLevel
    asks,            \* OrderBook.asks: price -> PriceLevel
    orders,          \* OrderBook.orders: order id -> Order
    user_balances,   \* OrderBook.user_balances: user id -> currency -> balance
    next_id,         \* the next fresh order id
    cmd,             \* the command the engine processed last
    response,        \* what it sent on that command's response_tx
    trades,          \* the matcher's trades vector when that command's matching ended
    settlements,     \* the settlement calls that command made
    queue,           \* mpsc buffer: the requests accepted and not yet received
    requests,        \* every accepted request, in acceptance order, with its
                     \* oneshot receiver and what was sent on its response_tx
    sending,         \* per producer: the command its send().await has in hand
    started,         \* per producer: how many sends it has started
    applied,         \* the requests the engine has received, in that order
    senders,         \* "open" until every clone of orderbook_tx is dropped
    engine           \* "running" inside the while-let loop, then "stopped"

vars == <<bids, asks, orders, user_balances, next_id, cmd, response, trades, settlements>>
channel == <<queue, requests, sending, started, applied, senders, engine>>

Book == [bids |-> bids, asks |-> asks, orders |-> orders, user_balances |-> user_balances]

SetBook(b) ==
    /\ bids' = b.bids
    /\ asks' = b.asks
    /\ orders' = b.orders
    /\ user_balances' = b.user_balances

Error(message) == [type |-> "Error", message |-> message]

Init ==
    /\ bids = OrderBook_new.bids
    /\ asks = OrderBook_new.asks
    /\ orders = OrderBook_new.orders
    /\ user_balances = OrderBook_new.user_balances
    /\ next_id = 1
    /\ cmd = [type |-> "None"]
    /\ response = [type |-> "None"]
    /\ trades = <<>>
    /\ settlements = <<>>
    /\ queue = <<>>
    /\ requests = <<>>
    /\ sending = [p \in Producers |-> None]
    /\ started = [p \in Producers |-> 0]
    /\ applied = <<>>
    /\ senders = "open"
    /\ engine = "running"

\* what the reservation of a limit order asks for
required_currency(side) == IF side = "Buy" THEN "USD" ELSE "BTC"
required_balance(side, price, quantity) ==
    IF side = "Buy" THEN Price_to_f64(price) * Quantity_to_f64(quantity)
    ELSE Quantity_to_f64(quantity)

\* (variant: no balance check and no debit before matching)
reserve_skipped(b, user_id, side, price, quantity) ==
    [ok |-> TRUE, err |-> "", book |-> b]

\* the reservation: [ok, err, book]
reserve(b, user_id, side, price, quantity) ==
    LET currency == required_currency(side)
        needed == required_balance(side, price, quantity)
        reserved(d) ==
            IF d.ok THEN d
            ELSE [d EXCEPT !.err = "Failed to reserve " \o currency \o ": " \o @]
    IN  IF ~has_sufficient_balance(b, user_id, currency, needed)
        THEN [ok |-> FALSE, err |-> "Insufficient " \o currency \o " balance", book |-> b]
        ELSE reserved(deduct_balance(b, user_id, currency, needed))

\* create_limit_order sends PlaceLimitOrder; the engine reserves and matches
PlaceLimitOrder(user_id, side, price_in, quantity_in) ==
    /\ next_id <= MaxOrders
    /\ LET price == Price_from_f64(price_in)
           quantity == Quantity_from_f64(quantity_in)
           order == new_limit(next_id, user_id, side, price, quantity)
       IN  /\ next_id' = next_id + 1
           /\ cmd' = [type |-> "PlaceLimitOrder", user_id |-> user_id, side |-> side,
                      price |-> price, quantity |-> quantity, order_id |-> order.id]
           /\ \E r \in {reserve(Book, user_id, side, price, quantity)} :
                IF ~r.ok
                THEN /\ SetBook(r.book)
                     /\ trades' = <<>>
                     /\ settlements' = <<>>
                     /\ response' = Error(r.err)
                ELSE \E m \in {match_order(r.book, order)} :
                     /\ SetBook(m.book)
                     /\ trades' = m.trades
                     /\ settlements' = m.settlements
                     /\ response' =
                          IF m.err # "" THEN Error("Failed to place order: " \o m.err)
                          ELSE [type |-> "OrderPlaced", order_id |-> order.id,
                                trades |-> m.trades,
                                status |-> IF m.trades = <<>> THEN "Added to book"
                                           ELSE "Matched"]

\* create_market_order sends PlaceMarketOrder; no reservation
PlaceMarketOrder(user_id, side, quantity_in) ==
    /\ next_id <= MaxOrders
    /\ LET quantity == Quantity_from_f64(quantity_in)
           order == new_market(next_id, user_id, side, quantity)
       IN  /\ next_id' = next_id + 1
           /\ cmd' = [type |-> "PlaceMarketOrder", user_id |-> user_id, side |-> side,
                      quantity |-> quantity, order_id |-> order.id]
           /\ \E m \in {match_order(Book, order)} :
                /\ SetBook(m.book)
                /\ trades' = m.trades
                /\ settlements' = m.settlements
                /\ response' =
                     IF m.err # ""
                     THEN Error("Failed to place market order: " \o m.err)
                     ELSE [type |-> "OrderPlaced", order_id |-> order.id,
                           trades |-> m.trades,
                           status |-> IF m.trades = <<>> THEN "No liquidity"
                                      ELSE "Filled"]

\* (variant: a buy is refunded its quantity, the price left out)
refund_quantity_only(b, user_id, cancelled_order) ==
    credit_balance(b, user_id, IF cancelled_order.side = "Buy" THEN "USD" ELSE "BTC",
                   Quantity_to_f64(cancelled_order.remaining_quantity))

\* the refund of a cancelled order
refund(b, user_id, cancelled_order) ==
    IF cancelled_order.side = "Buy"
    THEN IF cancelled_order.price # None
         THEN credit_balance(b, user_id, "USD",
                  Price_to_f64(Unwrap(cancelled_order.price))
                  * Quantity_to_f64(cancelled_order.remaining_quantity))
         ELSE b
    ELSE credit_balance(b, user_id, "BTC",
             Quantity_to_f64(cancelled_order.remaining_quantity))

\* (variant: a failed cancel_order is answered OrderCancelled with success false)
CancelOrder_not_found_reply(user_id, order_id) ==
    \E c \in {cancel_order(Book, order_id)} :
        /\ cmd' = [type |-> "CancelOrder", user_id |-> user_id, order_id |-> order_id]
        /\ trades' = <<>>
        /\ settlements' = <<>>
        /\ UNCHANGED next_id
        /\ IF ~c.ok
           THEN /\ SetBook(c.book)
                /\ response' = [type |-> "OrderCancelled", order_id |-> order_id,
                                success |-> FALSE]
           ELSE IF Unwrap(c.order).user_id # user_id
           THEN /\ SetBook(c.book)
                /\ response' = Error("Not authorized to cancel this order")
           ELSE /\ SetBook(refund(c.book, user_id, Unwrap(c.order)))
                /\ response' = [type |-> "OrderCancelled", order_id |-> order_id,
                                success |-> TRUE]

CancelOrder(user_id, order_id) ==
    \E c \in {cancel_order(Book, order_id)} :
        /\ cmd' = [type |-> "CancelOrder", user_id |-> user_id, order_id |-> order_id]
        /\ trades' = <<>>
        /\ settlements' = <<>>
        /\ UNCHANGED next_id
        /\ IF ~c.ok
           THEN /\ SetBook(c.book)
                /\ response' = Error("Failed to cancel order: " \o c.err)
           ELSE IF Unwrap(c.order).user_id # user_id
           THEN /\ SetBook(c.book)
                /\ response' = Error("Not authorized to cancel this order")
           ELSE /\ SetBook(refund(c.book, user_id, Unwrap(c.order)))
                /\ response' = [type |-> "OrderCancelled", order_id |-> order_id,
                                success |-> TRUE]

GetOrderBook(depth) ==
    /\ cmd' = [type |-> "GetOrderBook", depth |-> depth]
    /\ \E d \in {get_depth(Book, depth)} :
          response' = [type |-> "OrderBookDepth", bids |-> d.bids, asks |-> d.asks]
    /\ trades' = <<>>
    /\ settlements' = <<>>
    /\ UNCHANGED <<bids, asks, orders, user_balances, next_id>>

\* (variant: the balance is read through get_or_create_balance)
GetUserBalance_creating(user_id) ==
    \E b \in {get_or_create_balance(Book, user_id)} :
        /\ cmd' = [type |-> "GetUserBalance", user_id |-> user_id]
        /\ response' = [type |-> "UserBalance", balance |-> b.user_balances[user_id]]
        /\ SetBook(b)
        /\ trades' = <<>>
        /\ settlements' = <<>>
        /\ UNCHANGED next_id

GetUserBalance(user_id) ==
    /\ cmd' = [type |-> "GetUserBalance", user_id |-> user_id]
    /\ response' = IF get_user_balance(Book, user_id) # None
                   THEN [type |-> "UserBalance",
                         balance |-> Unwrap(get_user_balance(Book, user_id))]
                   ELSE Error("User not found")
    /\ trades' = <<>>
    /\ settlements' = <<>>
    /\ UNCHANGED <<bids, asks, orders, user_balances, next_id>>

\* the engine's AddFunds arm
AddFunds(user_id, currency, amount) ==
    \E b \in {add_funds(Book, user_id, currency, amount)} :
        /\ cmd' = [type |-> "AddFunds", user_id |-> user_id, currency |-> currency,
                   amount |-> amount]
        /\ SetBook(b)
        /\ response' = [type |-> "FundsAdded", user_id |-> user_id,
                        currency |-> currency,
                        new_balance |-> get_balance(b.user_balances[user_id], currency)]
        /\ trades' = <<>>
        /\ settlements' = <<>>
        /\ UNCHANGED next_id

\* (variant: the amount is not validated)
onramp_valid_any_amount(currency, amount) ==
    ~(currency # "USD" /\ currency # "BTC")

\* the onramp handler: validates, then sends AddFunds
onramp_valid(currency, amount) ==
    ~(currency # "USD" /\ currency # "BTC") /\ ~(amount <= 0)

onramp(user_id, currency, amount) ==
    IF onramp_valid(currency, amount)
    THEN /\ (IF user_id \in DOMAIN user_balances
             THEN user_balances[user_id][currency] ELSE 0) + amount <= MaxBalance
         /\ AddFunds(user_id, currency, amount)
    ELSE /\ cmd' = [type |-> "None"]
         /\ response' = [type |-> "BadRequest"]
         /\ trades' = <<>>
         /\ settlements' = <<>>
         /\ UNCHANGED <<bids, asks, orders, user_balances, next_id>>

\* The commands that change the book or the balances, given to the engine
\* one after the other with the command channel left out.  The two queries
\* (GetOrderBook, GetUserBalance) leave both alone and are not part of Next.
Next ==
    \/ \E u \in Users, s \in Sides, p \in PriceInputs, q \in QuantityInputs :
          PlaceLimitOrder(u, s, p, q) /\ UNCHANGED channel
    \/ \E u \in Users, s \in Sides, q \in QuantityInputs :
          PlaceMarketOrder(u, s, q) /\ UNCHANGED channel
    \/ \E u \in Users, id \in OrderIds : CancelOrder(u, id) /\ UNCHANGED channel
    \/ \E u \in Users, c \in CurrencyInputs, a \in AmountInputs :
          onramp(u, c, a) /\ UNCHANGED channel

Spec == Init /\ [][Next]_vars

\* The engine with its two queries as well: every arm of the command match.
NextQuery ==
    \/ Next
    \/ \E depth \in DepthInputs : GetOrderBook(depth) /\ UNCHANGED channel
    \/ \E u \in Users : GetUserBalance(u) /\ UNCHANGED channel

SpecQuery == Init /\ [][NextQuery]_vars

\* ------------------------------------------------------- command channel
\* The handlers (producers) send commands on the bounded mpsc channel; the
\* engine task receives them one at a time and answers each on its oneshot.
all_vars == <<vars, channel>>

\* what producer p sends: it acts for user p; its onramp has passed validation
Commands(p) ==
    {[type |-> "AddFunds", user_id |-> p,
      currency |-> IF p = 1 THEN "USD" ELSE "BTC", amount |-> MaxBalance],
     [type |-> "PlaceLimitOrder", user_id |-> p,
      side |-> IF p = 1 THEN "Buy" ELSE "Sell", price |-> 1, quantity |-> 1],
     [type |-> "PlaceMarketOrder", user_id |-> p,
      side |-> IF p = 1 THEN "Buy" ELSE "Sell", quantity |-> 1],
     [type |-> "CancelOrder", user_id |-> p, order_id |-> 1],
     [type |-> "GetOrderBook", depth |-> 1],
     [type |-> "GetUserBalance", user_id |-> p]}

\* a handler reaches orderbook_tx.send(command).await
StartSend(p, command) ==
    /\ senders = "open"
    /\ sending[p] = None
    /\ Len(requests) + Cardinality({q \in Producers : sending[q] # None}) < MaxRequests
    /\ started' = [started EXCEPT ![p] = @ + 1]
    /\ sending' = [sending EXCEPT ![p] = Some([command |-> command, nth |-> started[p] + 1])]
    /\ UNCHANGED <<vars, queue, requests, applied, senders, engine>>

\* (variant: the buffer takes a command whatever its length)
Accept_unbounded(p) ==
    /\ sending[p] # None
    /\ requests' = Append(requests,
                      [producer |-> p, nth |-> Unwrap(sending[p]).nth,
                       command |-> Unwrap(sending[p]).command,
                       receiver |-> "waiting", sends |-> <<>>])
    /\ queue' = Append(queue, Len(requests) + 1)
    /\ sending' = [sending EXCEPT ![p] = None]
    /\ UNCHANGED <<vars, started, applied, senders, engine>>

\* send().await completes: the buffer has room and takes the command; the
\* handler goes on to await its response_rx
Accept(p) ==
    /\ sending[p] # None
    /\ Len(queue) < QueueCapacity
    /\ requests' = Append(requests,
                      [producer |-> p, nth |-> Unwrap(sending[p]).nth,
                       command |-> Unwrap(sending[p]).command,
                       receiver |-> "waiting", sends |-> <<>>])
    /\ queue' = Append(queue, Len(requests) + 1)
    /\ sending' = [sending EXCEPT ![p] = None]
    /\ UNCHANGED <<vars, started, applied, senders, engine>>

\* the client goes away while its handler awaits the reply: the handler's
\* future is dropped and response_rx with it
GiveUp(i) ==
    /\ i \in 1..Len(requests)
    /\ requests[i].receiver = "waiting"
    /\ requests[i].sends = <<>>
    /\ requests' = [requests EXCEPT ![i].receiver = "dropped"]
    /\ UNCHANGED <<vars, queue, sending, started, applied, senders, engine>>

\* the arm of the command match
Dispatch(c) ==
    \/ c.type = "PlaceLimitOrder"
          /\ PlaceLimitOrder(c.user_id, c.side, c.price, c.quantity)
    \/ c.type = "PlaceMarketOrder" /\ PlaceMarketOrder(c.user_id, c.side, c.quantity)
    \/ c.type = "CancelOrder" /\ CancelOrder(c.user_id, c.order_id)
    \/ c.type = "GetOrderBook" /\ GetOrderBook(c.depth)
    \/ c.type = "GetUserBalance" /\ GetUserBalance(c.user_id)
    \/ c.type = "AddFunds" /\ AddFunds(c.user_id, c.currency, c.amount)

\* one send on a request's response_tx: delivered iff the receiver is there
Reply(i, r) == [response |-> r, delivered |-> requests[i].receiver = "waiting"]

\* one turn of the loop on request i: the arm runs, then `let _ = send`
Process(i, queue_after, replies, engine_after) ==
    /\ Dispatch(requests[i].command)
    /\ queue' = queue_after
    /\ applied' = Append(applied, i)
    /\ requests' = [requests EXCEPT ![i].sends = @ \o replies]
    /\ engine' = engine_after
    /\ UNCHANGED <<sending, started, senders>>

\* (variant: an Error is not sent to the caller)
EngineStep_error_not_sent ==
    /\ engine = "running"
    /\ queue # <<>>
    /\ Process(Head(queue), Tail(queue),
               IF response'.type = "Error" THEN <<>>
               ELSE <<Reply(Head(queue), response')>>, "running")

\* (variant: the engine takes the newest command of the buffer)
EngineStep_newest_first ==
    /\ engine = "running"
    /\ queue # <<>>
    /\ Process(queue[Len(queue)], SubSeq(queue, 1, Len(queue) - 1),
               <<Reply(queue[Len(queue)], response')>>, "running")

\* (variant: a command whose receiver is gone is answered without being run)
EngineStep_skip_dropped ==
    /\ engine = "running"
    /\ queue # <<>>
    /\ IF requests[Head(queue)].receiver = "dropped"
       THEN /\ queue' = Tail(queue)
            /\ applied' = Append(applied, Head(queue))
            /\ requests' = [requests EXCEPT ![Head(queue)].sends =
                               <<Reply(Head(queue), Error("cancelled"))>>]
            /\ UNCHANGED <<vars, sending, started, senders, engine>>
       ELSE Process(Head(queue), Tail(queue),
                    <<Reply(Head(queue), response')>>, "running")

\* (variant: the loop ends after a command answered with Error)
EngineStep_stop_on_error ==
    /\ engine = "running"
    /\ queue # <<>>
    /\ Process(Head(queue), Tail(queue), <<Reply(Head(queue), response')>>,
               IF response'.type = "Error" THEN "stopped" ELSE "running")

\* rx.recv().await yields the oldest command; its arm runs to its send
EngineStep ==
    /\ engine = "running"
    /\ queue # <<>>
    /\ Process(Head(queue), Tail(queue), <<Reply(Head(queue), response')>>, "running")

\* the server is gone: no handler is left, so every clone of the sender is dropped
DropSenders ==
    /\ senders = "open"
    /\ \A p \in Producers : sending[p] = None
    /\ \A i \in 1..Len(requests) :
          requests[i].sends # <<>> \/ requests[i].receiver = "dropped"
    /\ senders' = "dropped"
    /\ UNCHANGED <<vars, queue, requests, sending, started, applied, engine>>

\* rx.recv().await yields None: buffer empty and every sender dropped
EngineStop ==
    /\ engine = "running"
    /\ senders = "dropped"
    /\ queue = <<>>
    /\ engine' = "stopped"
    /\ UNCHANGED <<vars, queue, requests, sending, started, applied, senders>>

NextChannel ==
    \/ \E p \in Producers : \E command \in Commands(p) : StartSend(p, command)
    \/ \E p \in Producers : Accept(p)
    \/ \E i \in 1..MaxRequests : GiveUp(i)
    \/ EngineStep
    \/ DropSenders
    \/ EngineStop

SpecChannel == Init /\ [][NextChannel]_all_vars

\* the runtime runs the spawned engine task whenever it can make a step
SpecChannelFair ==
    SpecChannel /\ WF_all_vars(EngineStep) /\ WF_all_vars(EngineStop)

\* ============================================================= properties
PlaceTypes == {"PlaceLimitOrder", "PlaceMarketOrder"}

\* the levels of a book, named <<side, price>>
LevelKeys(b) ==
    {<<"Buy", p>> : p \in DOMAIN b.bids} \cup {<<"Sell", p>> : p \in DOMAIN b.asks}
LevelAt(b, k) == IF k[1] = "Buy" THEN b.bids[k[2]] ELSE b.asks[k[2]]
IdsIn(level) == {level.orders[i].id : i \in 1..Len(level.orders)}

RECURSIVE SumFn(_)
SumFn(f) ==
    IF DOMAIN f = {} THEN 0
    ELSE LET x == CHOOSE y \in DOMAIN f : TRUE IN f[x] + SumFn(RemoveKey(f, x))

SumRemaining(level) ==
    SumFn([i \in 1..Len(level.orders) |-> level.orders[i].remaining_quantity])

\* what the resting orders of a book reserve, in a currency
ReservedBy(order, currency) ==
    IF currency = "USD" /\ order.side = "Buy"
    THEN Price_to_f64(Unwrap(order.price)) * Quantity_to_f64(order.remaining_quantity)
    ELSE IF currency = "BTC" /\ order.side = "Sell"
    THEN Quantity_to_f64(order.remaining_quantity)
    ELSE 0
Reserved(b, currency) ==
    SumFn([k \in LevelKeys(b) |->
             SumFn([i \in 1..Len(LevelAt(b, k).orders) |->
                      ReservedBy(LevelAt(b, k).orders[i], currency)])])
Total(b, currency) ==
    SumFn([u \in DOMAIN b.user_balances |-> b.user_balances[u][currency]])
    + Reserved(b, currency)

\* C1. Conservation: for each currency the sum of all balances plus what the
\* resting orders reserve is the same before and after every PlaceLimit,
\* PlaceMarket and Cancel command; AddFunds raises it by the amount added.
C1_Conservation ==
    [][/\ cmd'.type \in PlaceTypes \cup {"CancelOrder"}
          => \A c \in Currencies : Total(Book', c) = Total(Book, c)
       /\ cmd'.type = "AddFunds"
          => \A c \in Currencies :
                Total(Book', c) = Total(Book, c)
                                  + (IF c = cmd'.currency THEN cmd'.amount ELSE 0)]_vars

\* C2. The ids of the by-id index are exactly the ids queued in the levels,
\* and no id is queued twice.
C2_IndexMatchesLevels ==
    /\ DOMAIN orders = UNION {IdsIn(LevelAt(Book, k)) : k \in LevelKeys(Book)}
    /\ SumFn([k \in LevelKeys(Book) |-> Len(LevelAt(Book, k).orders)])
          = Cardinality(DOMAIN orders)

\* a limit order traded in part and the rest of it is resting and indexed
C2_Witness ==
    /\ cmd.type = "PlaceLimitOrder"
    /\ response.type = "OrderPlaced"
    /\ trades # <<>>
    /\ cmd.order_id \in DOMAIN orders
    /\ Cardinality(DOMAIN orders) >= 2

\* C3. Every level's total_volume is the sum of the remaining quantities of
\* the orders queued in it, after a success and after an Error reply.
C3_VolumeMatchesQueue ==
    \A k \in LevelKeys(Book) : LevelAt(Book, k).total_volume = SumRemaining(LevelAt(Book, k))

\* an Error reply after a fill took part of a maker that is still queued
C3_Witness ==
    /\ response.type = "Error"
    /\ settlements # <<>>
    /\ \E k \in LevelKeys(Book) : \E i \in 1..Len(LevelAt(Book, k).orders) :
          /\ LevelAt(Book, k).orders[i].status = "PartiallyFilled"
          /\ LevelAt(Book, k).orders[i].id = settlements[Len(settlements)].trade.maker_order_id

\* C4. Every resting order has 0 < remaining <= original and status Open or
\* PartiallyFilled.
C4_RestingOrdersLive ==
    \A k \in LevelKeys(Book) : \A i \in 1..Len(LevelAt(Book, k).orders) :
        LET o == LevelAt(Book, k).orders[i]
        IN  /\ 0 < o.remaining_quantity
            /\ o.remaining_quantity <= o.original_quantity
            /\ o.status \in {"Open", "PartiallyFilled"}

\* C5. No balance is ever negative.
C5_BalancesNonNegative ==
    \A u \in DOMAIN user_balances : \A c \in Currencies : user_balances[u][c] >= 0

\* a settled trade took a balance to exactly 0
C5_Witness ==
    /\ trades # <<>>
    /\ \E i \in 1..Len(settlements) :
          LET s == settlements[i]
          IN  /\ s.ok
              /\ \E c \in Currencies :
                    /\ s.before[s.trade.taker_user_id][c] > 0
                    /\ s.after[s.trade.taker_user_id][c] = 0

\* C6. When both sides hold a level, best_bid < best_ask.
C6_BookNotCrossed ==
    (DOMAIN bids # {} /\ DOMAIN asks # {})
        => Unwrap(best_bid(Book)) < Unwrap(best_ask(Book))

\* a limit order traded, then came to rest, and the other side is not empty
C6_Witness ==
    /\ cmd.type = "PlaceLimitOrder"
    /\ trades # <<>>
    /\ cmd.order_id \in DOMAIN orders
    /\ DOMAIN bids # {}
    /\ DOMAIN asks # {}

\* An order has been touched by a step when the level no longer holds it as
\* it was.
Untouched(level, order) == \E j \in 1..Len(level.orders) : level.orders[j] = order
LevelOrEmpty(b, k) == IF k \in LevelKeys(b) THEN LevelAt(b, k) ELSE PriceLevel_new(k[2])
PosOf(level, id) == MinOf({i \in 1..Len(level.orders) : level.orders[i].id = id})

\* C7. Time priority.  Ids are given in arrival order, so within a level the
\* order with the smaller id was enqueued first.  (a) Every queue is in arrival
\* order.  (b) In a matching command an order B is touched only if every
\* order A enqueued before it in its level has left the level.  (c) A cancel
\* leaves every other order of the level as it was and in the same relative
\* order.
C7_TimePriority ==
    [][/\ \A k \in LevelKeys(Book') :
             \A i, j \in 1..Len(LevelAt(Book', k).orders) :
                 i < j => LevelAt(Book', k).orders[i].id < LevelAt(Book', k).orders[j].id
       /\ cmd'.type \in PlaceTypes =>
             \A k \in LevelKeys(Book) :
                 \A i, j \in 1..Len(LevelAt(Book, k).orders) :
                     LET A == LevelAt(Book, k).orders[i]
                         B == LevelAt(Book, k).orders[j]
                     IN  (A.id < B.id /\ ~Untouched(LevelOrEmpty(Book', k), B))
                             => A.id \notin IdsIn(LevelOrEmpty(Book', k))
       /\ cmd'.type = "CancelOrder" =>
             \A k \in LevelKeys(Book) :
                 \A i, j \in 1..Len(LevelAt(Book, k).orders) :
                     LET A == LevelAt(Book, k).orders[i]
                         B == LevelAt(Book, k).orders[j]
                         after == LevelOrEmpty(Book', k)
                     IN  (i < j /\ A.id # cmd'.order_id /\ B.id # cmd'.order_id)
                             => /\ Untouched(after, A)
                                /\ Untouched(after, B)
                                /\ PosOf(after, A.id) < PosOf(after, B.id)]_vars

\* a trade consumed maker A and an order enqueued after A still rests at
\* that price
C7_Witness ==
    /\ cmd.type \in PlaceTypes
    /\ \E i \in 1..Len(trades) :
          LET t == trades[i]
              levels == Opposite(Book, cmd.side)
          IN  /\ t.maker_order_id \notin DOMAIN orders
              /\ t.price \in DOMAIN levels
              /\ levels[t.price].orders # <<>>
              /\ Head(levels[t.price].orders).id > t.maker_order_id
              /\ Head(levels[t.price].orders).status = "Open"

\* p is a strictly better price than q for a taker of the given side
Better(taker_side, p, q) == IF taker_side = "Buy" THEN p < q ELSE p > q

\* C8. Price priority.  For every fill of a matching command (settled or
\* not) no level at a strictly better price is left on the opposite side, and
\* the fill prices of the command never get better from one fill to the next.
C8_PricePriority ==
    [][cmd'.type \in PlaceTypes =>
         \A i \in 1..Len(settlements') :
            /\ \A p \in DOMAIN Opposite(Book', cmd'.side) :
                   ~Better(cmd'.side, p, settlements'[i].trade.price)
            /\ \A j \in 1..Len(settlements') :
                   i < j => ~Better(cmd'.side, settlements'[j].trade.price,
                                    settlements'[i].trade.price)]_vars

\* one taker traded at two prices
C8_Witness ==
    /\ cmd.type \in PlaceTypes
    /\ Len(trades) >= 2
    /\ trades[1].price # trades[2].price

\* C9. Every trade carries the price of the maker it was matched against,
\* which is the key of the level the maker rested in before the command, and
\* names that maker's order and user and the taker's order and user.
C9_TradeAtMakerPrice ==
    [][cmd'.type \in PlaceTypes =>
         \A i \in 1..Len(trades') :
            LET t == trades'[i]
                levels == Opposite(Book, cmd'.side)
            IN  /\ t.price \in DOMAIN levels
                /\ \E j \in 1..Len(levels[t.price].orders) :
                      LET maker == levels[t.price].orders[j]
                      IN  /\ maker.id = t.maker_order_id
                          /\ maker.price = Some(t.price)
                          /\ maker.user_id = t.maker_user_id
                /\ t.maker_order_id \in DOMAIN orders
                /\ orders[t.maker_order_id].price = Some(t.price)
                /\ t.taker_order_id = cmd'.order_id
                /\ t.taker_user_id = cmd'.user_id]_vars

\* a limit order traded at a price that is not its own
C9_Witness ==
    /\ cmd.type = "PlaceLimitOrder"
    /\ response.type = "OrderPlaced"
    /\ trades # <<>>
    /\ trades[1].price # cmd.price

\* the balances after the four legs of a trade, all applied
Adjust(balances, user_id, currency, delta) ==
    LET b == IF user_id \in DOMAIN balances THEN balances
             ELSE Insert(balances, user_id, UserBalance_new)
    IN  [b EXCEPT ![user_id][currency] = @ + delta]
FourLegs(balances, trade, taker_side) ==
    LET btc == Quantity_to_f64(trade.quantity)
        usd == Price_to_f64(trade.price) * btc
        sign == IF taker_side = "Buy" THEN 1 ELSE -1
    IN  Adjust(Adjust(Adjust(Adjust(balances,
            trade.taker_user_id, "USD", (0 - sign) * usd),
            trade.taker_user_id, "BTC", sign * btc),
            trade.maker_user_id, "BTC", (0 - sign) * btc),
            trade.maker_user_id, "USD", sign * usd)

\* C10. Settlement of one trade is all-or-nothing: a call that returns Ok has
\* applied the four legs, a call that returns an error has changed no balance.
C10_SettlementAtomic ==
    \A i \in 1..Len(settlements) :
        LET s == settlements[i]
        IN  /\ s.ok => s.after = FourLegs(s.before, s.trade, s.taker_side)
            /\ ~s.ok => s.after = s.before

\* a user's balance in a currency, 0 without a balance record
Bal(balances, user_id, currency) ==
    IF user_id \in DOMAIN balances THEN balances[user_id][currency] ELSE 0
\* the USD value of a quantity at a price
Usd(price, quantity) == Price_to_f64(price) * Quantity_to_f64(quantity)

\* C11. Resting then matching limit: the book holds one untouched sell of q at
\* p and nothing else, and another user whose USD cover the reservation places
\* a limit buy of q at p.  Then the reply is OrderPlaced / Matched with the one
\* trade (p, q), both sides are empty, the buyer has USD - p x q and BTC + q,
\* and the seller, whose q BTC were taken when the order was placed, has the
\* same BTC as before the buy (BTC - q relative to before the sell) and
\* USD + p x q.
C11_RestThenMatch ==
    [][\A p \in DOMAIN asks :
          (/\ cmd'.type = "PlaceLimitOrder"
           /\ cmd'.side = "Buy"
           /\ cmd'.price = p
           /\ cmd'.quantity > 0
           /\ DOMAIN bids = {}
           /\ DOMAIN asks = {p}
           /\ Len(asks[p].orders) = 1
           /\ Head(asks[p].orders).status = "Open"
           /\ Head(asks[p].orders).remaining_quantity = cmd'.quantity
           /\ Head(asks[p].orders).user_id # cmd'.user_id
           /\ Bal(user_balances, cmd'.user_id, "USD") >= Usd(p, cmd'.quantity))
          => LET buyer == cmd'.user_id
                 seller == Head(asks[p].orders).user_id
                 q == cmd'.quantity
             IN  /\ response'.type = "OrderPlaced"
                 /\ response'.status = "Matched"
                 /\ Len(response'.trades) = 1
                 /\ response'.trades[1].price = p
                 /\ response'.trades[1].quantity = q
                 /\ DOMAIN bids' = {}
                 /\ DOMAIN asks' = {}
                 /\ Bal(user_balances', buyer, "USD")
                       = Bal(user_balances, buyer, "USD") - Usd(p, q)
                 /\ Bal(user_balances', buyer, "BTC")
                       = Bal(user_balances, buyer, "BTC") + Quantity_to_f64(q)
                 /\ Bal(user_balances', seller, "BTC") = Bal(user_balances, seller, "BTC")
                 /\ Bal(user_balances', seller, "USD")
                       = Bal(user_balances, seller, "USD") + Usd(p, q)]_vars

\* C12. Price improvement: a limit buy at L of quantity q that fills in full,
\* in one trade, against another user's resting sell at p < L leaves the
\* buyer's USD lower than before the command by exactly p x q.
C12_PriceImprovement ==
    [][(/\ cmd'.type = "PlaceLimitOrder"
        /\ cmd'.side = "Buy"
        /\ cmd'.quantity > 0
        /\ response'.type = "OrderPlaced"
        /\ Len(trades') = 1
        /\ trades'[1].quantity = cmd'.quantity
        /\ trades'[1].price < cmd'.price
        /\ trades'[1].maker_user_id # cmd'.user_id)
       => Bal(user_balances', cmd'.user_id, "USD")
             = Bal(user_balances, cmd'.user_id, "USD")
               - Usd(trades'[1].price, cmd'.quantity)]_vars

\* the taker's debit of a settlement call went through
TakerDebitOk(s) ==
    LET btc == Quantity_to_f64(s.trade.quantity)
        usd == Price_to_f64(s.trade.price) * btc
    IN  /\ s.trade.taker_user_id \in DOMAIN s.before
        /\ IF s.taker_side = "Buy"
           THEN s.before[s.trade.taker_user_id]["USD"] >= usd
           ELSE s.before[s.trade.taker_user_id]["BTC"] >= btc

\* C13. A reservation guarantees settlement: no settlement call fails on the
\* owner of a limit order.  Every maker is a limit order whose reservation
\* succeeded, and so is the taker of a PlaceLimitOrder command that got as far
\* as matching; so a limit command has no failed call, and a call of a market
\* command fails only on the taker's own debit.
C13_ReservationGuaranteesSettlement ==
    \A i \in 1..Len(settlements) :
        /\ cmd.type = "PlaceLimitOrder" => settlements[i].ok
        /\ cmd.type = "PlaceMarketOrder"
              => (settlements[i].ok \/ ~TakerDebitOk(settlements[i]))

\* C14. A Cancel by a user who does not own the order is answered with an
\* error and leaves bids, asks, the index and the balances as they were.
C14_CancelByNonOwner ==
    [][(/\ cmd'.type = "CancelOrder"
        /\ cmd'.order_id \in DOMAIN orders
        /\ orders[cmd'.order_id].user_id # cmd'.user_id)
       => /\ response'.type = "Error"
          /\ UNCHANGED <<bids, asks, orders, user_balances>>]_vars

\* every id queued in some level of a book
QueuedIds(b) == UNION {IdsIn(LevelAt(b, k)) : k \in LevelKeys(b)}
\* the other currency
Other(currency) == IF currency = "USD" THEN "BTC" ELSE "USD"

\* C15. Place-then-cancel round trip, as its two halves.  A limit order that
\* comes to rest without trading takes its reservation (price x quantity USD
\* for a buy, quantity BTC for a sell) from its user's balance and nothing
\* else.  A cancel by the owner of an order that no command has touched since
\* (index copy and queued copy both as placed) gives exactly that amount back,
\* changes no other balance, and removes the order from the index and from
\* the levels.  So the balances after the cancel are those before the order.
C15_PlaceCancelRoundTrip ==
    [][/\ (/\ cmd'.type = "PlaceLimitOrder"
           /\ response'.type = "OrderPlaced"
           /\ trades' = <<>>
           /\ cmd'.order_id \in DOMAIN orders')
          => LET u == cmd'.user_id
                 c == required_currency(cmd'.side)
             IN  /\ Bal(user_balances', u, c)
                       = Bal(user_balances, u, c) - ReservedBy(orders'[cmd'.order_id], c)
                 /\ Bal(user_balances', u, Other(c)) = Bal(user_balances, u, Other(c))
       /\ (/\ cmd'.type = "CancelOrder"
           /\ cmd'.order_id \in DOMAIN orders
           /\ orders[cmd'.order_id].user_id = cmd'.user_id
           /\ orders[cmd'.order_id].status = "Open"
           /\ orders[cmd'.order_id].remaining_quantity
                 = orders[cmd'.order_id].original_quantity
           /\ \E k \in LevelKeys(Book) :
                 Untouched(LevelAt(Book, k), orders[cmd'.order_id]))
          => LET u == cmd'.user_id
                 o == orders[cmd'.order_id]
                 c == required_currency(o.side)
             IN  /\ response'.type = "OrderCancelled"
                 /\ Bal(user_balances', u, c) = Bal(user_balances, u, c) + ReservedBy(o, c)
                 /\ Bal(user_balances', u, Other(c)) = Bal(user_balances, u, Other(c))
                 /\ \A v \in DOMAIN user_balances :
                       v # u => user_balances'[v] = user_balances[v]
                 /\ o.id \notin DOMAIN orders'
                 /\ o.id \notin QueuedIds(Book')
                 /\ \A k \in LevelKeys(Book) :
                       LevelOrEmpty(Book', k).total_volume
                          = LevelAt(Book, k).total_volume
                            - (IF k = <<o.side, Unwrap(o.price)>>
                               THEN o.remaining_quantity ELSE 0)]_vars

\* the only order ever placed was cancelled by its owner, whose balance is
\* again the whole deposit
C15_Witness ==
    /\ cmd.type = "CancelOrder"
    /\ response.type = "OrderCancelled"
    /\ next_id = 2
    /\ DOMAIN orders = {}
    /\ \E c \in Currencies : Bal(user_balances, cmd.user_id, c) = MaxBalance

\* C16. A Cancel whose order id is not in the by-id index is answered with an
\* error and leaves bids, asks, the index and every balance as they were.
C16_CancelUnknownId ==
    [][(cmd'.type = "CancelOrder" /\ cmd'.order_id \notin DOMAIN orders)
       => /\ response'.type = "Error"
          /\ UNCHANGED <<bids, asks, orders, user_balances>>]_vars

\* a second cancel of an order already cancelled, with another order resting
C16_Witness ==
    /\ cmd.type = "CancelOrder"
    /\ response = Error("Failed to cancel order: Order not found")
    /\ cmd.order_id < next_id
    /\ cmd.order_id \notin DOMAIN orders
    /\ DOMAIN orders # {}

\* C17. A PlaceLimitOrder whose user lacks the reservation amount (or has no
\* balance record) is answered with Error, makes no settlement call and no
\* trade, and leaves bids, asks, the index and every balance as they were.
C17_InsufficientReservation ==
    [][(/\ cmd'.type = "PlaceLimitOrder"
        /\ ~has_sufficient_balance(Book, cmd'.user_id, required_currency(cmd'.side),
                required_balance(cmd'.side, cmd'.price, cmd'.quantity)))
       => /\ response'.type = "Error"
          /\ trades' = <<>>
          /\ settlements' = <<>>
          /\ cmd'.order_id \notin DOMAIN orders'
          /\ UNCHANGED <<bids, asks, orders, user_balances>>]_vars

\* a buy that crosses a resting sell is refused for lack of USD by a user who
\* has some
C17_Witness ==
    /\ cmd.type = "PlaceLimitOrder"
    /\ cmd.side = "Buy"
    /\ response = Error("Insufficient USD balance")
    /\ Bal(user_balances, cmd.user_id, "USD") > 0
    /\ DOMAIN asks # {}
    /\ cmd.price >= Unwrap(best_ask(Book))

\* C18. A PlaceLimitOrder or PlaceMarketOrder whose quantity is not positive
\* (the request's 0 or negative decimal, both 0 as a Quantity) is answered
\* with an error and leaves bids, asks, the index and the balances alone.
C18_NonPositiveQuantityRejected ==
    [][(cmd'.type \in PlaceTypes /\ cmd'.quantity = 0)
       => /\ response'.type = "Error"
          /\ UNCHANGED <<bids, asks, orders, user_balances>>]_vars

\* the volume resting on the side a taker matches against
OppositeLiquidity(b, taker_side) ==
    SumFn([p \in DOMAIN Opposite(b, taker_side) |-> Opposite(b, taker_side)[p].total_volume])
OppositeIds(b, taker_side) ==
    UNION {IdsIn(Opposite(b, taker_side)[p]) : p \in DOMAIN Opposite(b, taker_side)}
InsufficientLiquidity ==
    Error("Failed to place market order: Insufficient liquidity for market order")

\* the balances after the four legs of each trade of a sequence, in order
RECURSIVE SettleAll(_, _, _)
SettleAll(balances, ts, taker_side) ==
    IF ts = <<>> THEN balances
    ELSE SettleAll(FourLegs(balances, Head(ts), taker_side), Tail(ts), taker_side)

\* C19. A market order for more than the opposite side holds: with an empty
\* opposite side it is answered with the insufficient-liquidity Error and
\* changes nothing; when its fills all settle, it empties the opposite side
\* and is then answered with that Error, while every maker it met stays
\* removed from the levels and the index, its trades stay settled in the
\* balances, and its own side is untouched.
C19_MarketExceedsLiquidity ==
    [][(/\ cmd'.type = "PlaceMarketOrder"
        /\ cmd'.quantity > OppositeLiquidity(Book, cmd'.side))
       => /\ DOMAIN Opposite(Book, cmd'.side) = {}
                => /\ response' = InsufficientLiquidity
                   /\ UNCHANGED <<bids, asks, orders, user_balances>>
          /\ (\A i \in 1..Len(settlements') : settlements'[i].ok)
                => /\ response' = InsufficientLiquidity
                   /\ DOMAIN Opposite(Book', cmd'.side) = {}
                   /\ {trades'[i].maker_order_id : i \in 1..Len(trades')}
                         = OppositeIds(Book, cmd'.side)
                   /\ DOMAIN orders' = DOMAIN orders \ OppositeIds(Book, cmd'.side)
                   /\ user_balances' = SettleAll(user_balances, trades', cmd'.side)
                   /\ IF cmd'.side = "Buy" THEN bids' = bids ELSE asks' = asks]_vars

\* a market order filled against a maker, settled, and then ran out of
\* liquidity
C19_Witness ==
    /\ cmd.type = "PlaceMarketOrder"
    /\ response = InsufficientLiquidity
    /\ trades # <<>>
    /\ trades[1].quantity > 0
    /\ trades[1].quantity < cmd.quantity
    /\ trades[1].maker_order_id \notin DOMAIN orders

\* remaining, original and status of one order agree
OrderConsistent(o) ==
    /\ 0 <= o.remaining_quantity
    /\ o.remaining_quantity <= o.original_quantity
    /\ o.status = "Filled" <=> o.remaining_quantity = 0
    /\ o.status = "PartiallyFilled"
          <=> (0 < o.remaining_quantity /\ o.remaining_quantity < o.original_quantity)

\* C20. Every order the engine holds (queued in a level, or copied in the
\* index) has 0 <= remaining <= original, status Filled exactly when
\* remaining is 0, and status PartiallyFilled exactly when
\* 0 < remaining < original.
C20_OrderStatusConsistent ==
    /\ \A k \in LevelKeys(Book) : \A i \in 1..Len(LevelAt(Book, k).orders) :
          OrderConsistent(LevelAt(Book, k).orders[i])
    /\ \A id \in DOMAIN orders : OrderConsistent(orders[id])

\* the pairs of a depth list are the n best levels of one side, best first;
\* side is the side of the taker these levels would serve (Sell for the bids)
DepthOfSide(list, levels, n, side) ==
    /\ Len(list) = Min2(n, Cardinality(DOMAIN levels))
    /\ \A i \in 1..Len(list) :
          /\ list[i][1] \in DOMAIN levels
          /\ levels[list[i][1]].orders # <<>>
          /\ list[i][2] = SumRemaining(levels[list[i][1]])
    /\ \A i \in 1..(Len(list) - 1) : Better(side, list[i][1], list[i + 1][1])
    /\ \A p \in DOMAIN levels :
          (\A i \in 1..Len(list) : list[i][1] # p)
             => \A i \in 1..Len(list) : Better(side, list[i][1], p)

\* C21. GetOrderBook with depth n answers, for each side, min(n, number of
\* levels) pairs: the n best levels of that side (all of them if there are
\* fewer), bids by strictly decreasing price and asks by strictly increasing
\* price, every pair holding the sum of the remaining quantities queued at that
\* price; a side without levels gives the empty list; the book is not changed.
C21_DepthBestLevels ==
    [][cmd'.type = "GetOrderBook"
       => /\ response'.type = "OrderBookDepth"
          /\ DepthOfSide(response'.bids, bids, cmd'.depth, "Sell")
          /\ DepthOfSide(response'.asks, asks, cmd'.depth, "Buy")
          /\ (DOMAIN bids = {} => response'.bids = <<>>)
          /\ (DOMAIN asks = {} => response'.asks = <<>>)
          /\ UNCHANGED <<bids, asks, orders, user_balances>>]_vars

\* depth 1 asked of a book with two bid levels and no ask: the higher bid
\* alone is listed, and the ask list is empty
C21_Witness ==
    /\ cmd.type = "GetOrderBook"
    /\ cmd.depth = 1
    /\ Cardinality(DOMAIN bids) = 2
    /\ DOMAIN asks = {}
    /\ Len(response.bids) = 1
    /\ response.bids[1][1] = MaxOf(DOMAIN bids)
    /\ response.bids[1][2] > 0
    /\ response.asks = <<>>

\* the sum of the quantities of a list of trades
TradedQuantity(ts) == SumFn([i \in 1..Len(ts) |-> ts[i].quantity])
\* the remaining quantity with which an order is queued in a book, 0 if it is not
RestingRemainder(b, id) ==
    SumFn([k \in LevelKeys(b) |->
             SumFn([i \in {j \in 1..Len(LevelAt(b, k).orders) :
                              LevelAt(b, k).orders[j].id = id} |->
                      LevelAt(b, k).orders[i].remaining_quantity])])

\* C22. Quantity accounting of an accepted order.  For a PlaceLimitOrder
\* answered OrderPlaced, the quantities of the trades in the reply plus the
\* remaining quantity with which the order is queued (0 if it is not queued)
\* make its original quantity; the order is queued, at the level of its own
\* side and limit price and nowhere else, and indexed with that remainder,
\* exactly when the remainder is > 0.  For a PlaceMarketOrder answered
\* OrderPlaced the quantities of the trades make the original quantity.
C22_QuantityAccounting ==
    [][/\ (cmd'.type = "PlaceLimitOrder" /\ response'.type = "OrderPlaced")
          => LET id == cmd'.order_id
                 own == <<cmd'.side, cmd'.price>>
                 remainder == cmd'.quantity - TradedQuantity(response'.trades)
             IN  /\ TradedQuantity(response'.trades) + RestingRemainder(Book', id)
                       = cmd'.quantity
                 /\ remainder > 0
                       <=> (own \in LevelKeys(Book') /\ id \in IdsIn(LevelAt(Book', own)))
                 /\ \A k \in LevelKeys(Book') :
                       id \in IdsIn(LevelAt(Book', k)) => k = own
                 /\ remainder > 0 <=> id \in DOMAIN orders'
                 /\ id \in DOMAIN orders'
                       => orders'[id].remaining_quantity = remainder
       /\ (cmd'.type = "PlaceMarketOrder" /\ response'.type = "OrderPlaced")
          => TradedQuantity(response'.trades) = cmd'.quantity]_vars

\* a limit order of quantity 2 traded 1 and rests at its own price with 1
C22_Witness ==
    /\ cmd.type = "PlaceLimitOrder"
    /\ response.type = "OrderPlaced"
    /\ Len(response.trades) = 1
    /\ response.trades[1].quantity = Quantity_from_f64(1)
    /\ cmd.quantity = Quantity_from_f64(2)
    /\ <<cmd.side, cmd.price>> \in LevelKeys(Book)
    /\ RestingRemainder(Book, cmd.order_id) = Quantity_from_f64(1)

\* C23. Whatever the replies so far, every order queued in a level or held in
\* the index is a Limit order with a price; and the order of a place command
\* is in the book after the command only with a remaining quantity > 0, so no
\* market order and no fully filled taker is ever in the book.
C23_NoMarketNoFilledTaker ==
    [][/\ \A k \in LevelKeys(Book') : \A i \in 1..Len(LevelAt(Book', k).orders) :
             /\ LevelAt(Book', k).orders[i].order_type = "Limit"
             /\ LevelAt(Book', k).orders[i].price # None
       /\ \A id \in DOMAIN orders' :
             orders'[id].order_type = "Limit" /\ orders'[id].price # None
       /\ cmd'.type \in PlaceTypes
          => LET id == cmd'.order_id
             IN  /\ cmd'.type = "PlaceMarketOrder"
                       => id \notin DOMAIN orders' /\ id \notin QueuedIds(Book')
                 /\ id \in DOMAIN orders'
                       => ~is_fully_filled(orders'[id])
                 /\ id \in QueuedIds(Book')
                       => RestingRemainder(Book', id) > 0]_vars

\* a market order traded in full and was answered OrderPlaced; it is not in
\* the index, which still holds a resting limit order
C23_Witness ==
    /\ cmd.type = "PlaceMarketOrder"
    /\ response.type = "OrderPlaced"
    /\ trades # <<>>
    /\ trades[1].quantity > 0
    /\ DOMAIN orders # {}
    /\ cmd.order_id \notin DOMAIN orders

\* C29. After every command neither side holds an empty level: every level
\* of bids and asks has a non-empty queue of orders of that side and price,
\* and a level exists at a side and price exactly when the index holds an
\* order of that side and price; so best_bid, best_ask and every depth entry
\* name a level with at least one order.
C29_NoEmptyLevel ==
    /\ \A k \in LevelKeys(Book) :
          /\ ~is_empty(LevelAt(Book, k))
          /\ LevelAt(Book, k).price = k[2]
          /\ \A i \in 1..Len(LevelAt(Book, k).orders) :
                /\ LevelAt(Book, k).orders[i].side = k[1]
                /\ LevelAt(Book, k).orders[i].price = Some(k[2])
    /\ \A id \in DOMAIN orders :
          /\ orders[id].price # None
          /\ <<orders[id].side, Unwrap(orders[id].price)>> \in LevelKeys(Book)
    /\ \A k \in LevelKeys(Book) : \E id \in DOMAIN orders :
          orders[id].side = k[1] /\ orders[id].price = Some(k[2])
    /\ best_bid(Book) # None => bids[Unwrap(best_bid(Book))].orders # <<>>
    /\ best_ask(Book) # None => asks[Unwrap(best_ask(Book))].orders # <<>>
    /\ \E d \in {get_depth(Book, MaxInput)} :
          /\ \A i \in 1..Len(d.bids) : bids[d.bids[i][1]].orders # <<>>
          /\ \A i \in 1..Len(d.asks) : asks[d.asks[i][1]].orders # <<>>

\* a trade filled the only maker of its level: the level is gone, the maker
\* is out of the index, and another level is still there
C29_Witness ==
    /\ cmd.type \in PlaceTypes
    /\ response.type = "OrderPlaced"
    /\ trades # <<>>
    /\ trades[1].quantity > 0
    /\ trades[1].maker_order_id \notin DOMAIN orders
    /\ trades[1].price \notin DOMAIN Opposite(Book, cmd.side)
    /\ LevelKeys(Book) # {}

\* the copy of an order that is queued in a level
QueuedCopy(level, id) == level.orders[PosOf(level, id)]

\* C30. A Cancel answered OrderCancelled credits the owner price x remaining
\* USD for a buy, remaining BTC for a sell, remaining being the remaining
\* quantity of the copy queued in the level when the cancel arrives; it
\* changes no other balance, takes that order alone out of the index and out
\* of its level (the level goes when it becomes empty), and leaves every
\* other level as it was.
C30_CancelRefundsRemaining ==
    [][(cmd'.type = "CancelOrder" /\ response'.type = "OrderCancelled")
       => LET id == cmd'.order_id
              u == cmd'.user_id
              own == <<orders[id].side, Unwrap(orders[id].price)>>
              queued == QueuedCopy(LevelAt(Book, own), id)
              c == required_currency(queued.side)
          IN  /\ Bal(user_balances', u, c)
                    = Bal(user_balances, u, c) + ReservedBy(queued, c)
              /\ Bal(user_balances', u, Other(c)) = Bal(user_balances, u, Other(c))
              /\ \A v \in DOMAIN user_balances' :
                    v # u => (v \in DOMAIN user_balances
                               /\ user_balances'[v] = user_balances[v])
              /\ orders' = RemoveKey(orders, id)
              /\ \A k \in LevelKeys(Book) \cup LevelKeys(Book') :
                    k # own => (k \in LevelKeys(Book) /\ k \in LevelKeys(Book')
                                /\ LevelAt(Book', k) = LevelAt(Book, k))
              /\ LevelOrEmpty(Book', own).orders
                    = RemoveAt(LevelAt(Book, own).orders, PosOf(LevelAt(Book, own), id))
              /\ LevelOrEmpty(Book', own).total_volume
                    = LevelAt(Book, own).total_volume - queued.remaining_quantity]_vars

\* ------------------------------------------------ command channel claims
\* What one command, run alone on book b with next id `id`, leaves behind and
\* answers: [book, next_id, response].  It takes the command and the engine's
\* state only: neither the buffer nor the reply channel is an argument.
Outcome(b, id, c) ==
    IF c.type = "PlaceLimitOrder"
    THEN LET order == new_limit(id, c.user_id, c.side, Price_from_f64(c.price),
                                Quantity_from_f64(c.quantity))
             matched(m) ==
                 [book |-> m.book, next_id |-> id + 1,
                  response |-> IF m.err # ""
                               THEN Error("Failed to place order: " \o m.err)
                               ELSE [type |-> "OrderPlaced", order_id |-> id,
                                     trades |-> m.trades,
                                     status |-> IF m.trades = <<>> THEN "Added to book"
                                                ELSE "Matched"]]
             reserved(r) ==
                 IF ~r.ok
                 THEN [book |-> r.book, next_id |-> id + 1, response |-> Error(r.err)]
                 ELSE matched(match_order(r.book, order))
         IN  reserved(reserve(b, c.user_id, c.side, Unwrap(order.price), order.original_quantity))
    ELSE IF c.type = "PlaceMarketOrder"
    THEN LET matched(m) ==
                 [book |-> m.book, next_id |-> id + 1,
                  response |-> IF m.err # ""
                               THEN Error("Failed to place market order: " \o m.err)
                               ELSE [type |-> "OrderPlaced", order_id |-> id,
                                     trades |-> m.trades,
                                     status |-> IF m.trades = <<>> THEN "No liquidity"
                                                ELSE "Filled"]]
         IN  matched(match_order(b, new_market(id, c.user_id, c.side,
                                               Quantity_from_f64(c.quantity))))
    ELSE IF c.type = "CancelOrder"
    THEN LET cancelled(x) ==
                 IF ~x.ok
                 THEN [book |-> x.book, next_id |-> id,
                       response |-> Error("Failed to cancel order: " \o x.err)]
                 ELSE IF Unwrap(x.order).user_id # c.user_id
                 THEN [book |-> x.book, next_id |-> id,
                       response |-> Error("Not authorized to cancel this order")]
                 ELSE [book |-> refund(x.book, c.user_id, Unwrap(x.order)),
                       next_id |-> id,
                       response |-> [type |-> "OrderCancelled",
                                     order_id |-> c.order_id, success |-> TRUE]]
         IN  cancelled(cancel_order(b, c.order_id))
    ELSE IF c.type = "GetOrderBook"
    THEN LET depth(d) ==
                 [book |-> b, next_id |-> id,
                  response |-> [type |-> "OrderBookDepth", bids |-> d.bids,
                                asks |-> d.asks]]
         IN  depth(get_depth(b, c.depth))
    ELSE IF c.type = "GetUserBalance"
    THEN [book |-> b, next_id |-> id,
          response |-> IF c.user_id \in DOMAIN b.user_balances
                       THEN [type |-> "UserBalance",
                             balance |-> b.user_balances[c.user_id]]
                       ELSE Error("User not found")]
    ELSE LET funded(b2) ==
                 [book |-> b2, next_id |-> id,
                  response |-> [type |-> "FundsAdded", user_id |-> c.user_id,
                                currency |-> c.currency,
                                new_balance |-> b2.user_balances[c.user_id][c.currency]]]
         IN  funded(add_funds(b, c.user_id, c.currency, c.amount))

\* the elements of a sequence
Range(seq) == {seq[i] : i \in 1..Len(seq)}

\* C24. The engine sends exactly one response for every command it has
\* received and none for a command it has not: in the turn of a command the
\* request goes from no send to one send, whatever the arm and whether it
\* ends in success or in Error; that response is the one the finished command
\* gives, sent with the book and the balances already as the command leaves
\* them; and no step outside a command's turn changes the book, the balances
\* or the sends of any request, so the response is out before the next
\* command starts.
C24_OneReplyPerCommand ==
    [][/\ \A i \in 1..Len(requests') :
             Len(requests'[i].sends) = (IF i \in Range(applied') THEN 1 ELSE 0)
       /\ applied' # applied
          => \E i \in {applied'[Len(applied')]} :
             \E out \in {Outcome(Book, next_id, requests[i].command)} :
                /\ applied' = Append(applied, i)
                /\ requests[i].sends = <<>>
                /\ requests'[i].sends
                      = <<[response |-> out.response,
                           delivered |-> requests[i].receiver = "waiting"]>>
                /\ out.response.type
                      \in {"OrderPlaced", "OrderCancelled", "OrderBookDepth",
                           "UserBalance", "FundsAdded", "Error"}
                /\ Book' = out.book
                /\ next_id' = out.next_id
                /\ \A j \in 1..Len(requests) : j # i => requests'[j] = requests[j]
       /\ applied' = applied
          => /\ UNCHANGED <<bids, asks, orders, user_balances, next_id>>
             /\ \A i \in 1..Len(requests) : requests'[i].sends = requests[i].sends]_all_vars

\* three commands received: one answered with Error, a later one with a
\* success, each request with its one send
C24_Witness ==
    /\ Len(applied) = MaxRequests
    /\ \E i, j \in 1..MaxRequests :
          /\ i < j
          /\ requests[i].sends[1].response.type = "Error"
          /\ requests[j].sends[1].response.type = "OrderPlaced"
    /\ \A i \in 1..MaxRequests : Len(requests[i].sends) = 1

\* the commands cs applied one after the other, each to what the one before left
RECURSIVE Replay(_, _)
Replay(es, cs) ==
    IF cs = <<>> THEN es
    ELSE Replay(Outcome(es.book, es.next_id, Head(cs)), Tail(cs))
Fresh == [book |-> OrderBook_new, next_id |-> 1, response |-> [type |-> "None"]]

\* C25. With the producers sending concurrently, the engine has received the
\* accepted requests in acceptance order and the buffer holds the others in
\* that order; two requests of one producer are accepted, hence applied, in
\* the order that producer sent them; and in every state the book, the
\* balances and the next id are those of the received commands applied one
\* after the other, whole, in acceptance order, the last reply being that of
\* the last of them.
C25_AcceptanceOrder ==
    /\ applied = [j \in 1..Len(applied) |-> j]
    /\ queue = [j \in 1..Len(queue) |-> Len(applied) + j]
    /\ Len(applied) + Len(queue) = Len(requests)
    /\ \A i, j \in 1..Len(requests) :
          (i < j /\ requests[i].producer = requests[j].producer)
             => requests[i].nth < requests[j].nth
    /\ \E r \in {Replay(Fresh, [j \in 1..Len(applied) |-> requests[j].command])} :
          /\ Book = r.book
          /\ next_id = r.next_id
          /\ applied # <<>> => requests[Len(applied)].sends[1].response = r.response

\* both producers had a command in the buffer at once, all three commands
\* are applied, one producer's two among them, and an order rests
C25_Witness ==
    /\ Len(applied) = MaxRequests
    /\ requests[1].producer # requests[2].producer
    /\ requests[3].producer = requests[1].producer
    /\ requests[3].nth = 2
    /\ DOMAIN orders # {}

\* C26. When the engine receives a command whose reply receiver has been
\* dropped, it runs the command whole: book, balances and next id become
\* what the command leaves on its own, which does not depend on the receiver,
\* so they are those of the same command with its receiver alive; the one
\* send is made and fails without any other effect; the engine is still
\* running with the rest of the buffer in front of it.
C26_DroppedReceiver ==
    [][(applied' # applied /\ requests[Head(queue)].receiver = "dropped")
       => \E i \in {Head(queue)} :
          \E out \in {Outcome(Book, next_id, requests[i].command)} :
             /\ applied' = Append(applied, i)
             /\ Book' = out.book
             /\ next_id' = out.next_id
             /\ requests' = [requests EXCEPT ![i].sends =
                                <<[response |-> out.response, delivered |-> FALSE]>>]
             /\ engine' = "running"
             /\ queue' = Tail(queue)
             /\ UNCHANGED <<sending, started, senders>>]_all_vars

\* a deposit whose caller had gone was applied all the same: a later order
\* of that user was reserved out of it and rests
C26_Witness ==
    \E i, j \in 1..Len(applied) :
        /\ i < j
        /\ requests[i].receiver = "dropped"
        /\ Len(requests[i].sends) = 1
        /\ ~requests[i].sends[1].delivered
        /\ requests[i].command.type = "AddFunds"
        /\ requests[i].sends[1].response.type = "FundsAdded"
        /\ requests[j].command.type = "PlaceLimitOrder"
        /\ requests[j].command.user_id = requests[i].command.user_id
        /\ requests[j].sends[1].response.type = "OrderPlaced"
        /\ DOMAIN orders # {}

\* request i has been received and answered
Answered(i) ==
    /\ i \in 1..Len(requests)
    /\ i \in Range(applied)
    /\ Len(requests[i].sends) = 1

\* C27. With the engine task scheduled fairly, every request accepted onto
\* the buffer is in the end received and answered, whatever the answers to
\* the commands before it, Error included; and the loop has ended only if
\* every sender was dropped, the buffer is empty and every accepted request
\* has been answered.
C27_EngineNeverStopsOnError ==
    /\ [](engine = "stopped"
            => /\ senders = "dropped"
               /\ queue = <<>>
               /\ \A i \in 1..Len(requests) : Answered(i))
    /\ \A i \in 1..MaxRequests : (Len(requests) >= i) ~> Answered(i)

\* a command answered with Error, and after it a command answered with a
\* success by the engine, still running
C27_Witness ==
    /\ engine = "running"
    /\ \E i, j \in 1..Len(applied) :
          /\ i < j
          /\ Answered(i)
          /\ requests[i].sends[1].response.type = "Error"
          /\ Answered(j)
          /\ requests[j].sends[1].response.type # "Error"

\* C28. Back-pressure.  The buffer never holds more than QueueCapacity
\* commands.  A producer whose send finds the buffer full keeps its command
\* in hand; a send completes only when the buffer has room, and then puts
\* that command at the back of the buffer; the buffer gets shorter only by
\* the engine receiving its head.  Every accepted request is, once, either
\* received or still in the buffer, in acceptance order: none is lost, none
\* is received twice, and no accepted command is altered.
C28_BackPressure ==
    [][/\ Len(queue') <= QueueCapacity
       /\ \A p \in Producers :
             /\ (sending[p] # None /\ Len(queue) = QueueCapacity)
                   => sending'[p] = sending[p]
             /\ (sending[p] # None /\ sending'[p] = None)
                   => /\ Len(queue) < QueueCapacity
                      /\ Len(requests') = Len(requests) + 1
                      /\ queue' = Append(queue, Len(requests'))
                      /\ requests'[Len(requests')].command = Unwrap(sending[p]).command
                      /\ requests'[Len(requests')].producer = p
       /\ Len(queue') < Len(queue)
             => (queue' = Tail(queue) /\ applied' = Append(applied, Head(queue)))
       /\ applied' \o queue' = [j \in 1..Len(requests') |-> j]
       /\ Len(requests') >= Len(requests)
       /\ \A i \in 1..Len(requests) :
             requests'[i].command = requests[i].command]_all_vars

\* the buffer is full and a producer waits with its command in hand
C28_Witness ==
    /\ Len(queue) = QueueCapacity
    /\ \E p \in Producers :
          /\ sending[p] # None
          /\ ~ENABLED Accept(p)

\* C31. Every AddFunds command that reaches the engine has currency USD or
\* BTC and an amount > 0: a request with another currency or with an amount
\* <= 0 is rejected by the handler, and a rejection changes no balance and
\* nothing else.  An AddFunds command of amount a raises that user's balance
\* in that currency by a, from 0 and with the other currency at 0 when the
\* user had no record, changes nothing else, and replies FundsAdded with the
\* new balance.
C31_AddFunds ==
    [][/\ response'.type = "BadRequest"
          => UNCHANGED <<bids, asks, orders, user_balances, next_id>>
       /\ cmd'.type = "AddFunds"
          => LET u == cmd'.user_id
                 c == cmd'.currency
             IN  /\ c \in Currencies
                 /\ cmd'.amount > 0
                 /\ DOMAIN user_balances' = DOMAIN user_balances \cup {u}
                 /\ DOMAIN user_balances'[u] = Currencies
                 /\ user_balances'[u][c] = Bal(user_balances, u, c) + cmd'.amount
                 /\ user_balances'[u][Other(c)] = Bal(user_balances, u, Other(c))
                 /\ \A v \in DOMAIN user_balances :
                       v # u => user_balances'[v] = user_balances[v]
                 /\ response' = [type |-> "FundsAdded", user_id |-> u, currency |-> c,
                                 new_balance |-> user_balances'[u][c]]
                 /\ UNCHANGED <<bids, asks, orders, next_id>>]_vars

\* a user whose record a USD deposit created has now deposited BTC as well
C31_Witness ==
    /\ cmd.type = "AddFunds"
    /\ cmd.currency = "BTC"
    /\ response.type = "FundsAdded"
    /\ response.new_balance = MaxBalance
    /\ user_balances[cmd.user_id] = [USD |-> MaxBalance, BTC |-> MaxBalance]

\* C32. GetOrderBook and GetUserBalance are read-only: neither changes a
\* level, an index entry or a balance.  GetUserBalance for a user without a
\* balance record is answered with the error "User not found" and creates
\* no record; for a user with a record it is answered with that record.
C32_QueriesReadOnly ==
    [][/\ cmd'.type \in {"GetOrderBook", "GetUserBalance"}
          => UNCHANGED <<bids, asks, orders, user_balances, next_id>>
       /\ cmd'.type = "GetOrderBook" => response'.type = "OrderBookDepth"
       /\ cmd'.type = "GetUserBalance"
          => IF cmd'.user_id \in DOMAIN user_balances
             THEN response' = [type |-> "UserBalance",
                               balance |-> user_balances[cmd'.user_id]]
             ELSE /\ response' = Error("User not found")
                  /\ cmd'.user_id \notin DOMAIN user_balances']_vars

\* the balance of a user without a record was asked for while another user
\* has a record and an order rests: the answer is the error, no record is made
C32_Witness ==
    /\ cmd.type = "GetUserBalance"
    /\ response = Error("User not found")
    /\ cmd.user_id \notin DOMAIN user_balances
    /\ DOMAIN user_balances # {}
    /\ DOMAIN orders # {}

\* what the fills of a command took from its taker
FilledOfTaker(calls) == SumFn([i \in 1..Len(calls) |-> calls[i].trade.quantity])

\* C33. Limit-price bound.  Every fill made for a limit buy has a price <=
\* the limit and every fill made for a limit sell a price >= the limit; and
\* when the matching of a limit order has ended with part of its quantity
\* unfilled, the opposite side is empty or its best price does not cross the
\* limit.
C33_LimitPriceBound ==
    [][(/\ cmd'.type = "PlaceLimitOrder"
        /\ (response'.type = "OrderPlaced" \/ settlements' # <<>>))
       => /\ \A i \in 1..Len(settlements') :
                IF cmd'.side = "Buy"
                THEN settlements'[i].trade.price <= cmd'.price
                ELSE settlements'[i].trade.price >= cmd'.price
          /\ cmd'.quantity - FilledOfTaker(settlements') > 0
                => \/ best_opposite(Book', cmd'.side) = None
                   \/ ~crosses(cmd'.side, cmd'.price,
                               Unwrap(best_opposite(Book', cmd'.side)))]_vars

\* the side on which the makers of a taker rest
MakerSide(taker_side) == IF taker_side = "Buy" THEN "Sell" ELSE "Buy"
\* what the emitted trades ts took from maker id
EmittedFrom(ts, id) ==
    SumFn([i \in {j \in 1..Len(ts) : ts[j].maker_order_id = id} |-> ts[i].quantity])
\* what the emitted trades ts took at price p
EmittedAt(ts, p) ==
    SumFn([i \in {j \in 1..Len(ts) : ts[j].price = p} |-> ts[i].quantity])

\* C34. In a PlaceLimit or PlaceMarket command a resting order loses
\* remaining quantity, and its level volume, only by fills whose trade was
\* settled and emitted: an order that rested before the command either still
\* rests with its remaining quantity less what the emitted trades took from
\* it, or is gone because they took all of it; every level of the makers'
\* side has its volume less what the emitted trades took at its price; and
\* when the last fill of the command was refused by settlement, the maker of
\* that fill is queued exactly as it was before the command (same remaining
\* quantity and status), at the head of its level.
C34_OnlySettledFillsReduce ==
    [][cmd'.type \in PlaceTypes
       => /\ \A k \in LevelKeys(Book) : \A id \in IdsIn(LevelAt(Book, k)) :
                IF id \in QueuedIds(Book')
                THEN /\ k \in LevelKeys(Book')
                     /\ id \in IdsIn(LevelAt(Book', k))
                     /\ QueuedCopy(LevelAt(Book', k), id).remaining_quantity
                           = QueuedCopy(LevelAt(Book, k), id).remaining_quantity
                             - EmittedFrom(trades', id)
                     /\ EmittedFrom(trades', id) = 0
                           => QueuedCopy(LevelAt(Book', k), id)
                                 = QueuedCopy(LevelAt(Book, k), id)
                ELSE EmittedFrom(trades', id)
                        = QueuedCopy(LevelAt(Book, k), id).remaining_quantity
          /\ \A k \in LevelKeys(Book) :
                k[1] = MakerSide(cmd'.side)
                   => LevelOrEmpty(Book', k).total_volume
                         = LevelAt(Book, k).total_volume - EmittedAt(trades', k[2])
          /\ (settlements' # <<>> /\ ~settlements'[Len(settlements')].ok)
                => \E t \in {settlements'[Len(settlements')].trade} :
                   \E k \in {<<MakerSide(cmd'.side), t.price>>} :
                      /\ k \in LevelKeys(Book')
                      /\ t.maker_order_id \in IdsIn(LevelAt(Book', k))
                      /\ Head(LevelAt(Book', k).orders)
                            = QueuedCopy(LevelAt(Book, k), t.maker_order_id)]_vars

\* C35. A PlaceLimit command answered with Error, whether the reservation
\* was refused or matching or settlement failed, leaves both sides of the
\* book, the by-id index and every balance of every user as they were before
\* the command.
C35_ErrorLeavesStateUnchanged ==
    [][(cmd'.type = "PlaceLimitOrder" /\ response'.type = "Error")
       => /\ bids' = bids
          /\ asks' = asks
          /\ orders' = orders
          /\ \A u \in Users : \A c \in Currencies :
                Bal(user_balances', u, c) = Bal(user_balances, u, c)]_vars

\* the taker's remaining quantity just before the i-th emitted trade of ts
TakerBefore(quantity, ts, i) ==
    quantity - SumFn([j \in 1..(i - 1) |-> ts[j].quantity])

\* C36. Every trade emitted by a PlaceLimit or PlaceMarket command (the
\* trades of its OrderPlaced reply) has a quantity greater than zero, and
\* that quantity is the smaller of the taker's remaining quantity and the
\* maker's remaining quantity just before the fill.
C36_TradeQuantityPositiveMin ==
    [][(cmd'.type \in PlaceTypes /\ response'.type = "OrderPlaced")
       => \A i \in 1..Len(response'.trades) :
             \E t \in {response'.trades[i]} :
             \E k \in {<<MakerSide(cmd'.side), t.price>>} :
                /\ t.quantity > 0
                /\ k \in LevelKeys(Book)
                /\ t.maker_order_id \in IdsIn(LevelAt(Book, k))
                /\ t.quantity
                     = Min2(TakerBefore(cmd'.quantity, response'.trades, i),
                            QueuedCopy(LevelAt(Book, k), t.maker_order_id)
                               .remaining_quantity)]_vars

\* C37. After every command each order queued in a price level has a copy
\* in the by-id index with the same remaining quantity, status, price, side
\* and owner.
C37_IndexMatchesLevels ==
    \A k \in LevelKeys(Book) : \A id \in IdsIn(LevelAt(Book, k)) :
       /\ id \in DOMAIN orders
       /\ \E q \in {QueuedCopy(LevelAt(Book, k), id)} :
             /\ orders[id].remaining_quantity = q.remaining_quantity
             /\ orders[id].status = q.status
             /\ orders[id].price = q.price
             /\ orders[id].side = q.side
             /\ orders[id].user_id = q.user_id

\* the trades of every fill a command made, settled or refused, in order
FillsOf(calls) == [i \in 1..Len(calls) |-> calls[i].trade]
\* the volume of the level at price p just before the i-th fill of fs
VolumeBefore(level, fs, i) ==
    level.total_volume
       - SumFn([j \in {n \in 1..(i - 1) : fs[n].price = level.price} |-> fs[j].quantity])

\* C38. No quantity subtraction goes below zero. For every fill of a
\* PlaceLimit or PlaceMarket command the filled quantity is at most the
\* maker's remaining quantity, at most the taker's remaining quantity and
\* at most the total_volume of the maker's level, each taken just before
\* the fill; and an order taken out of its level by a CancelOrder command
\* has a remaining quantity of at most the level's total_volume.
C38_NoQuantityUnderflow ==
    [][/\ cmd'.type \in PlaceTypes
          => \E fs \in {FillsOf(settlements')} :
             \A i \in 1..Len(fs) :
             \E k \in {<<MakerSide(cmd'.side), fs[i].price>>} :
                /\ k \in LevelKeys(Book)
                /\ fs[i].maker_order_id \in IdsIn(LevelAt(Book, k))
                /\ fs[i].quantity >= 0
                /\ fs[i].quantity
                      <= QueuedCopy(LevelAt(Book, k), fs[i].maker_order_id)
                            .remaining_quantity
                /\ fs[i].quantity <= TakerBefore(cmd'.quantity, fs, i)
                /\ fs[i].quantity <= VolumeBefore(LevelAt(Book, k), fs, i)
       /\ cmd'.type = "CancelOrder"
          => \A k \in LevelKeys(Book) :
                (/\ cmd'.order_id \in IdsIn(LevelAt(Book, k))
                 /\ cmd'.order_id \notin QueuedIds(Book'))
                   => /\ QueuedCopy(LevelAt(Book, k), cmd'.order_id)
                            .remaining_quantity >= 0
                      /\ QueuedCopy(LevelAt(Book, k), cmd'.order_id)
                            .remaining_quantity
                            <= LevelAt(Book, k).total_volume]_vars

\* a command has just made two fills, the second of them at a level whose
\* volume the first had already reduced
C38_Witness ==
    /\ cmd.type \in PlaceTypes
    /\ Len(settlements) = 2
    /\ settlements[1].trade.quantity > 0
    /\ settlements[2].trade.quantity > 0
    /\ settlements[1].trade.price = settlements[2].trade.price

\* the orders and the levels on the side the taker of w matches against
OppositeOrderCount(w) ==
    LET levels == Opposite(w.book, w.taker.side)
    IN  SumFn([p \in DOMAIN levels |-> Len(levels[p].orders)])
OppositeLevelCount(w) == Cardinality(DOMAIN Opposite(w.book, w.taker.side))
\* the head of a matching loop lets the body run once more
Continues(w) ==
    LET best == best_opposite(w.book, w.taker.side)
    IN  /\ ~is_fully_filled(w.taker)
        /\ best # None
        /\ w.taker.order_type = "Limit"
              => crosses(w.taker.side, Unwrap(w.taker.price), Unwrap(best))
\* one pass of the loop body from w to w2 has made progress: nothing grew,
\* and the pass ended in an error or made one of the three smaller
Progress(w, w2) ==
    /\ w2.taker.remaining_quantity <= w.taker.remaining_quantity
    /\ OppositeOrderCount(w2) <= OppositeOrderCount(w)
    /\ OppositeLevelCount(w2) <= OppositeLevelCount(w)
    /\ \/ w2.err # ""
       \/ w2.taker.remaining_quantity < w.taker.remaining_quantity
       \/ OppositeOrderCount(w2) < OppositeOrderCount(w)
       \/ OppositeLevelCount(w2) < OppositeLevelCount(w)
\* every pass of the loop started in w makes progress, up to the pass
\* that leaves the loop
RECURSIVE EveryPassProgresses(_)
EveryPassProgresses(w) ==
    IF ~Continues(w) THEN TRUE
    ELSE LET then(w2) == /\ Progress(w, w2)
                         /\ w2.err # "" \/ EveryPassProgresses(w2)
         IN  then(match_iteration(w, w.taker.side,
                                  Unwrap(best_opposite(w.book, w.taker.side))))

\* C39. match_order terminates for every reachable book and every incoming
\* limit or market order: each pass of a matching loop either ends in an
\* error, or strictly decreases the taker's remaining quantity, the number
\* of orders or the number of levels on the opposite side, and increases
\* none of them; the three are never below zero, so the loop is left after
\* finitely many passes.
C39_MatchTerminates ==
    \A user_id \in Users : \A side \in Sides : \A quantity_in \in QuantityInputs :
       \E quantity \in {Quantity_from_f64(quantity_in)} :
          /\ EveryPassProgresses(
                 MatchState(Book, new_market(next_id, user_id, side, quantity)))
          /\ \A price_in \in PriceInputs :
                \E price \in {Price_from_f64(price_in)} :
                \E r \in {reserve(Book, user_id, side, price, quantity)} :
                   r.ok => EveryPassProgresses(
                              MatchState(r.book,
                                  new_limit(next_id, user_id, side, price, quantity)))

\* a command has just run a pass that did not decrease the taker (a fill
\* of quantity zero against a maker left at remaining zero) and went on
C39_Witness ==
    /\ cmd.type \in PlaceTypes
    /\ response.type = "OrderPlaced"
    /\ settlements # <<>>
    /\ settlements[1].ok
    /\ settlements[1].trade.quantity = 0

====
